---- MODULE Spec2Model ----
(***************************************************************************)
(* Customer service (backend/customer_service/app/main.py): the startup    *)
(* retry loop, the Prometheus middleware, and the customer CRUD handlers   *)
(* over the customers table.                                               *)
(*                                                                         *)
(* A request occupies a slot.  The middleware and the `async def` handlers *)
(* run on the event loop: an `async def` handler holds no `await`, so it   *)
(* is one step; `await call_next` is the only suspension point of the      *)
(* middleware.  The `def` handlers run on the thread pool: delete_customer *)
(* makes two database round trips (query, then delete+commit) and other    *)
(* requests may run between them.  Every database call may fail            *)
(* (OperationalError): inside a try block the handler turns it into a 500  *)
(* HTTPException, outside it the exception leaves the handler unhandled.   *)
(***************************************************************************)
EXTENDS Integers, FiniteSets, Bags, TLC

\* ---- bounds of the model ----
\* requests admitted in a run (each has its own slot), the largest customer_id
\* the sequence hands out, and the most keys a PUT body carries
MaxRequests == 2
MaxId == 2
MaxKeys == 2

\* ---- program constants ----
max_retries == 10
retry_delay_seconds == 5

HTTP_200_OK == 200
HTTP_201_CREATED == 201
HTTP_204_NO_CONTENT == 204
HTTP_400_BAD_REQUEST == 400
HTTP_404_NOT_FOUND == 404
HTTP_500_INTERNAL_SERVER_ERROR == 500

\* ---- input domains ----
Slots == 1..MaxRequests
Ids == 1..MaxId
None == "None"
Emails == {"a@x.io", "b@x.io"}

\* the body of POST /customers/
CustomerCreate == [email : Emails, password : {"pw1"}, first_name : {"Ann", "Bob"},
                   last_name : {"Doe"}, phone_number : {None},
                   shipping_address : {None}]

\* what a key of a PUT body may carry
FieldValues == [email |-> Emails, password |-> {"pw2"}, first_name |-> {"Bob"},
                last_name |-> {"Roe"}, phone_number |-> {"555"},
                shipping_address |-> {"1 Main St"}]

UpdateKeys == {"email", "password", "first_name", "last_name", "phone_number",
               "shipping_address"}

\* the body of PUT /customers/{id} as model_dump(exclude_unset=True) gives it:
\* the keys the client supplied, each with its value
CustomerUpdate == UNION {{d \in [K -> UNION {FieldValues[k] : k \in K}] :
                             \A k \in K : d[k] \in FieldValues[k]} :
                        K \in {S \in SUBSET UpdateKeys : Cardinality(S) <= MaxKeys}}

VARIABLES startup, i, sleep_for, exit_code,
          customers, next_id,
          req, received,
          REQUEST_COUNT, REQUEST_DURATION, REQUESTS_IN_PROGRESS

vars == <<startup, i, sleep_for, exit_code, customers, next_id, req, received,
          REQUEST_COUNT, REQUEST_DURATION, REQUESTS_IN_PROGRESS>>

startup_vars == <<startup, i, sleep_for, exit_code>>
db_vars == <<customers, next_id>>
metric_vars == <<REQUEST_COUNT, REQUEST_DURATION, REQUESTS_IN_PROGRESS>>

\* ---- requests ----
APP_NAME == "customer_service"
Idle == [pc |-> "idle", method |-> "", path |-> <<>>, status |-> 0]

CustomerPath == [k \in Ids |-> <<"/customers/", k>>]

Routes == {<<"GET", <<"/">>>>, <<"GET", <<"/health">>>>, <<"GET", <<"/metrics">>>>,
           <<"POST", <<"/customers/">>>>}
          \cup {<<m, CustomerPath[k]>> : m \in {"GET", "PUT", "DELETE"}, k \in Ids}

\* every call to the database either answers or raises OperationalError
DbResults == {"ok", "OperationalError"}

\* the table outlives the process: what an earlier run left in it
Ann == [email |-> "a@x.io", password_hash |-> "pw1", first_name |-> "Ann",
        last_name |-> "Doe", phone_number |-> None, shipping_address |-> None]
Bob == [email |-> "b@x.io", password_hash |-> "pw1", first_name |-> "Bob",
        last_name |-> "Doe", phone_number |-> "555", shipping_address |-> None]
InitTables == {<<>>, (1 :> Ann), (1 :> Ann) @@ (2 :> Bob)}

\* ---- the state after construction ----
Init ==
    /\ startup = "attempt"
    /\ i = 0
    /\ sleep_for = 0
    /\ exit_code = 0
    /\ customers \in InitTables
    /\ next_id = Cardinality(DOMAIN customers) + 1
    /\ req = [r \in Slots |-> Idle]
    /\ received = 0
    /\ REQUEST_COUNT = EmptyBag
    /\ REQUEST_DURATION = EmptyBag
    /\ REQUESTS_IN_PROGRESS = <<>>

\* ---- startup_event ----
\* the loop guard compares with max_retries instead of max_retries - 1
create_all_off_by_one(result) ==
    /\ startup = "attempt"
    /\ UNCHANGED <<db_vars, req, received, metric_vars>>
    /\ IF result = "ok"
         THEN /\ startup' = "ready"
              /\ i' = 0
              /\ UNCHANGED <<sleep_for, exit_code>>
         ELSE IF result = "OperationalError" /\ i < max_retries
         THEN /\ startup' = "sleeping"
              /\ sleep_for' = retry_delay_seconds
              /\ UNCHANGED <<i, exit_code>>
         ELSE /\ startup' = "exited"
              /\ exit_code' = 1
              /\ UNCHANGED <<i, sleep_for>>

\* one iteration of `for i in range(max_retries)`: Base.metadata.create_all and
\* the except clauses; `result` is what create_all did
create_all(result) ==
    /\ startup = "attempt"
    /\ UNCHANGED <<db_vars, req, received, metric_vars>>
    /\ IF result = "ok"
         THEN \* break: startup_event returns and its locals are gone
              /\ startup' = "ready"
              /\ i' = 0
              /\ UNCHANGED <<sleep_for, exit_code>>
         ELSE IF result = "OperationalError"
         THEN IF i < max_retries - 1
                THEN /\ startup' = "sleeping"
                     /\ sleep_for' = retry_delay_seconds
                     /\ UNCHANGED <<i, exit_code>>
                ELSE /\ startup' = "exited"
                     /\ exit_code' = 1
                     /\ UNCHANGED <<i, sleep_for>>
         ELSE \* except Exception
              /\ startup' = "exited"
              /\ exit_code' = 1
              /\ UNCHANGED <<i, sleep_for>>

\* time.sleep(retry_delay_seconds) returns and the loop takes its next index
sleep_done ==
    /\ startup = "sleeping"
    /\ startup' = "attempt"
    /\ i' = i + 1
    /\ sleep_for' = 0
    /\ UNCHANGED <<exit_code, db_vars, req, received, metric_vars>>

startup_event ==
    \/ \E result \in {"ok", "OperationalError", "Exception"} : create_all(result)
    \/ sleep_done

\* ---- Prometheus metrics ----
\* Gauge.labels(...).inc() / .dec(): a label set is created at 0 on first use
Gauge(g, label) == IF label \in DOMAIN g THEN g[label] ELSE 0
GaugeAdd(g, label, d) == [l \in DOMAIN g \cup {label} |-> Gauge(g, l) + (IF l = label THEN d ELSE 0)]
\* Counter.labels(...).inc() and Histogram.labels(...).observe(): one more sample
Inc(c, label) == c (+) SetToBag({label})

\* ---- add_process_time_header (the metrics middleware) ----
Return(r, status_code) == [req EXCEPT ![r].pc = "returned", ![r].status = status_code]
Raise(r) == [req EXCEPT ![r].pc = "raised"]

\* a request arrives and the middleware runs up to `await call_next(request)`;
\* the r-th request of the run takes slot r
middleware_enter(r, method, path) ==
    /\ startup = "ready"
    /\ req[r].pc = "idle"
    /\ received < MaxRequests
    /\ r = received + 1
    /\ received' = received + 1
    /\ req' = [req EXCEPT ![r] = [Idle EXCEPT !.pc = "call_next", !.method = method,
                                                !.path = path]]
    /\ IF path = <<"/metrics">>
         THEN UNCHANGED REQUESTS_IN_PROGRESS
         ELSE REQUESTS_IN_PROGRESS' =
                  GaugeAdd(REQUESTS_IN_PROGRESS, <<APP_NAME, method, path>>, 1)
    /\ UNCHANGED <<startup_vars, db_vars, REQUEST_COUNT, REQUEST_DURATION>>

\* the middleware without its /metrics exclusion
middleware_exit_counts_metrics(r) ==
    /\ req[r].pc = "returned"
    /\ req' = [req EXCEPT ![r] = Idle]
    /\ REQUESTS_IN_PROGRESS' = REQUESTS_IN_PROGRESS
    /\ REQUEST_COUNT' =
          Inc(REQUEST_COUNT, <<APP_NAME, req[r].method, req[r].path, req[r].status>>)
    /\ REQUEST_DURATION' =
          Inc(REQUEST_DURATION, <<APP_NAME, req[r].method, req[r].path, req[r].status>>)
    /\ UNCHANGED <<startup_vars, db_vars, received>>

\* call_next returned a response: the rest of the middleware runs
middleware_exit(r) ==
    /\ req[r].pc = "returned"
    /\ req' = [req EXCEPT ![r] = Idle]
    /\ IF req[r].path = <<"/metrics">>
         THEN UNCHANGED metric_vars
         ELSE LET method == req[r].method
                  endpoint == req[r].path
                  status_code == req[r].status
              IN /\ REQUESTS_IN_PROGRESS' =
                       GaugeAdd(REQUESTS_IN_PROGRESS, <<APP_NAME, method, endpoint>>, -1)
                 /\ REQUEST_COUNT' =
                       Inc(REQUEST_COUNT, <<APP_NAME, method, endpoint, status_code>>)
                 /\ REQUEST_DURATION' =
                       Inc(REQUEST_DURATION, <<APP_NAME, method, endpoint, status_code>>)
    /\ UNCHANGED <<startup_vars, db_vars, received>>

\* call_next raised (the handler let an exception out): the exception leaves
\* the middleware at the `await`, nothing after it runs, and the server answers 500
middleware_raise(r) ==
    /\ req[r].pc = "raised"
    /\ req' = [req EXCEPT ![r] = Idle]
    /\ UNCHANGED <<startup_vars, db_vars, received, metric_vars>>

\* ---- handlers without the database ----
Handling(r, method, path) ==
    /\ req[r].pc = "call_next"
    /\ req[r].method = method
    /\ req[r].path = path

read_root(r) ==
    /\ Handling(r, "GET", <<"/">>)
    /\ req' = Return(r, HTTP_200_OK)
    /\ UNCHANGED <<startup_vars, db_vars, received, metric_vars>>

health_check(r) ==
    /\ Handling(r, "GET", <<"/health">>)
    /\ req' = Return(r, HTTP_200_OK)
    /\ UNCHANGED <<startup_vars, db_vars, received, metric_vars>>

\* generate_latest(registry) reads the registry
metrics(r) ==
    /\ Handling(r, "GET", <<"/metrics">>)
    /\ req' = Return(r, HTTP_200_OK)
    /\ UNCHANGED <<startup_vars, db_vars, received, metric_vars>>

\* ---- the customers table ----
\* the email column declared without unique=True
UniqueViolation_none(table, customer_id, row) == FALSE

\* the UNIQUE constraint on customers.email: writing `row` under `customer_id`
\* violates it when another row already holds that email
UniqueViolation(table, customer_id, row) ==
    \E k \in DOMAIN table \ {customer_id} : table[k].email = row.email

\* INSERT: the row gets the next value of the customer_id sequence
Insert(table, customer_id, row) == table @@ (customer_id :> row)
\* a soft delete: the row stays
Delete_soft(table, customer_id) == table

\* DELETE ... WHERE customer_id = :id (no row matched: nothing is deleted)
Delete(table, customer_id) == [k \in DOMAIN table \ {customer_id} |-> table[k]]

\* IntegrityError falls through to `except Exception`: 500 instead of 400
create_customer_no_400(r, customer, commit, refresh) ==
    /\ Handling(r, "POST", <<"/customers/">>)
    /\ UNCHANGED <<startup_vars, received, metric_vars>>
    /\ IF commit # "ok" \/ \E k \in DOMAIN customers : customers[k].email = customer.email
         THEN /\ req' = Return(r, HTTP_500_INTERNAL_SERVER_ERROR)
              /\ UNCHANGED db_vars
         ELSE /\ next_id <= MaxId
              /\ customers' = customers @@
                    (next_id :> [email |-> customer.email,
                                 password_hash |-> customer.password,
                                 first_name |-> customer.first_name,
                                 last_name |-> customer.last_name,
                                 phone_number |-> customer.phone_number,
                                 shipping_address |-> customer.shipping_address])
              /\ next_id' = next_id + 1
              /\ req' = Return(r, IF refresh = "ok" THEN HTTP_201_CREATED
                                   ELSE HTTP_500_INTERNAL_SERVER_ERROR)

\* IntegrityError is swallowed and the handler returns the unsaved object: 201
create_customer_swallow(r, customer, commit, refresh) ==
    /\ Handling(r, "POST", <<"/customers/">>)
    /\ UNCHANGED <<startup_vars, received, metric_vars>>
    /\ IF commit # "ok"
         THEN /\ req' = Return(r, HTTP_500_INTERNAL_SERVER_ERROR)
              /\ UNCHANGED db_vars
         ELSE IF \E k \in DOMAIN customers : customers[k].email = customer.email
         THEN /\ req' = Return(r, HTTP_201_CREATED)
              /\ UNCHANGED db_vars
         ELSE /\ next_id <= MaxId
              /\ customers' = customers @@
                    (next_id :> [email |-> customer.email,
                                 password_hash |-> customer.password,
                                 first_name |-> customer.first_name,
                                 last_name |-> customer.last_name,
                                 phone_number |-> customer.phone_number,
                                 shipping_address |-> customer.shipping_address])
              /\ next_id' = next_id + 1
              /\ req' = Return(r, IF refresh = "ok" THEN HTTP_201_CREATED
                                   ELSE HTTP_500_INTERNAL_SERVER_ERROR)

\* ---- create_customer ----
create_customer(r, customer, commit, refresh) ==
    /\ Handling(r, "POST", <<"/customers/">>)
    /\ UNCHANGED <<startup_vars, received, metric_vars>>
    /\   LET db_customer == [email |-> customer.email,
                             password_hash |-> customer.password,
                             first_name |-> customer.first_name,
                             last_name |-> customer.last_name,
                             phone_number |-> customer.phone_number,
                             shipping_address |-> customer.shipping_address]
         IN IF commit = "ok" /\ UniqueViolation(customers, next_id, db_customer)
              THEN \* except IntegrityError: rollback, 400
                   /\ req' = Return(r, HTTP_400_BAD_REQUEST)
                   /\ UNCHANGED db_vars
            ELSE IF commit # "ok"
              THEN \* except Exception: rollback, 500
                   /\ req' = Return(r, HTTP_500_INTERNAL_SERVER_ERROR)
                   /\ UNCHANGED db_vars
            ELSE /\ next_id <= MaxId  \* the model's cap on the sequence
                 /\ customers' = Insert(customers, next_id, db_customer)
                 /\ next_id' = next_id + 1
                 /\ IF refresh = "ok"
                      THEN req' = Return(r, HTTP_201_CREATED)
                      ELSE \* db.refresh raised after the commit: except Exception, 500
                           req' = Return(r, HTTP_500_INTERNAL_SERVER_ERROR)

\* ---- get_customer ----
get_customer(r, customer_id, query) ==
    /\ Handling(r, "GET", CustomerPath[customer_id])
    /\ UNCHANGED <<startup_vars, db_vars, received, metric_vars>>
    /\   IF query # "ok"
           THEN req' = Raise(r)
         ELSE IF customer_id \notin DOMAIN customers
           THEN req' = Return(r, HTTP_404_NOT_FOUND)
         ELSE req' = Return(r, HTTP_200_OK)

\* ---- update_customer ----
\* update_data after `del update_data["password"]`
DropPassword(update_data) == [k \in DOMAIN update_data \ {"password"} |-> update_data[k]]

\* model_dump() without exclude_unset: every unset field arrives as None
SetAttrs_unset_as_none(db_customer, update_data) ==
    [f \in DOMAIN db_customer |->
        IF f \in DOMAIN update_data THEN update_data[f]
        ELSE IF f = "password_hash" THEN db_customer[f] ELSE None]

\* for key, value in update_data.items(): setattr(db_customer, key, value)
SetAttrs(db_customer, update_data) ==
    [f \in DOMAIN db_customer |->
        IF f \in DOMAIN update_data THEN update_data[f] ELSE db_customer[f]]

\* each field is committed on its own: a rejected email leaves the others stored
update_customer_field_by_field(r, customer_id, customer_data, query, commit, refresh) ==
    /\ Handling(r, "PUT", CustomerPath[customer_id])
    /\ UNCHANGED <<startup_vars, next_id, received, metric_vars>>
    /\ IF query # "ok"
         THEN req' = Raise(r) /\ UNCHANGED customers
         ELSE IF customer_id \notin DOMAIN customers
         THEN req' = Return(r, HTTP_404_NOT_FOUND) /\ UNCHANGED customers
         ELSE LET db_customer == SetAttrs(customers[customer_id],
                                          DropPassword(customer_data))
                  clash == \E k \in DOMAIN customers \ {customer_id} :
                              customers[k].email = db_customer.email
              IN IF commit # "ok"
                   THEN /\ req' = Return(r, HTTP_500_INTERNAL_SERVER_ERROR)
                        /\ UNCHANGED customers
                   ELSE IF clash
                   THEN /\ req' = Return(r, HTTP_400_BAD_REQUEST)
                        /\ customers' =
                              [customers EXCEPT ![customer_id] =
                                  [db_customer EXCEPT
                                      !.email = customers[customer_id].email]]
                   ELSE /\ customers' = [customers EXCEPT ![customer_id] = db_customer]
                        /\ req' = Return(r, IF refresh = "ok" THEN HTTP_200_OK
                                             ELSE HTTP_500_INTERNAL_SERVER_ERROR)

update_customer(r, customer_id, customer_data, query, commit, refresh) ==
    /\ Handling(r, "PUT", CustomerPath[customer_id])
    /\ UNCHANGED <<startup_vars, next_id, received, metric_vars>>
    /\   IF query # "ok"
           THEN \* the query is outside the try block
                /\ req' = Raise(r)
                /\ UNCHANGED customers
         ELSE IF customer_id \notin DOMAIN customers
           THEN /\ req' = Return(r, HTTP_404_NOT_FOUND)
                /\ UNCHANGED customers
         ELSE LET update_data == DropPassword(customer_data)
                  db_customer == SetAttrs(customers[customer_id], update_data)
              IN IF commit = "ok" /\ UniqueViolation(customers, customer_id, db_customer)
                   THEN \* except IntegrityError: rollback, 400
                        /\ req' = Return(r, HTTP_400_BAD_REQUEST)
                        /\ UNCHANGED customers
                 ELSE IF commit # "ok"
                   THEN \* except Exception: rollback, 500
                        /\ req' = Return(r, HTTP_500_INTERNAL_SERVER_ERROR)
                        /\ UNCHANGED customers
                 ELSE /\ customers' = [customers EXCEPT ![customer_id] = db_customer]
                      /\ IF refresh = "ok"
                           THEN req' = Return(r, HTTP_200_OK)
                           ELSE req' = Return(r, HTTP_500_INTERNAL_SERVER_ERROR)

\* ---- delete_customer ----
\* a delete that treats a missing record as already deleted: 204
delete_customer_query_idempotent(r, customer_id, query) ==
    /\ Handling(r, "DELETE", CustomerPath[customer_id])
    /\ UNCHANGED <<startup_vars, db_vars, received, metric_vars>>
    /\ IF query # "ok"
         THEN req' = Raise(r)
         ELSE IF customer_id \notin DOMAIN customers
         THEN req' = Return(r, HTTP_204_NO_CONTENT)
         ELSE req' = [req EXCEPT ![r].pc = "loaded"]

\* the query and the 404 check; the handler runs on the thread pool, so other
\* requests may run before its delete and commit
delete_customer_query(r, customer_id, query) ==
    /\ Handling(r, "DELETE", CustomerPath[customer_id])
    /\ UNCHANGED <<startup_vars, db_vars, received, metric_vars>>
    /\   IF query # "ok"
           THEN req' = Raise(r)
         ELSE IF customer_id \notin DOMAIN customers
           THEN req' = Return(r, HTTP_404_NOT_FOUND)
         ELSE req' = [req EXCEPT ![r].pc = "loaded"]

\* db.delete(customer); db.commit()
delete_customer_commit(r, customer_id, commit) ==
    /\ req[r].pc = "loaded"
    /\ req[r].path = CustomerPath[customer_id]
    /\ UNCHANGED <<startup_vars, next_id, received, metric_vars>>
    /\   IF commit # "ok"
           THEN \* except Exception: rollback, 500
                /\ req' = Return(r, HTTP_500_INTERNAL_SERVER_ERROR)
                /\ UNCHANGED customers
           ELSE /\ customers' = Delete(customers, customer_id)
                /\ req' = Return(r, HTTP_204_NO_CONTENT)

\* ---- the service ----
Handler(r) ==
    \/ read_root(r)
    \/ health_check(r)
    \/ metrics(r)
    \/ \E customer \in CustomerCreate, commit \in DbResults, refresh \in DbResults :
          create_customer(r, customer, commit, refresh)
    \/ \E customer_id \in Ids, query \in DbResults : get_customer(r, customer_id, query)
    \/ \E customer_id \in Ids, customer_data \in CustomerUpdate,
          query \in DbResults, commit \in DbResults, refresh \in DbResults :
          update_customer(r, customer_id, customer_data, query, commit, refresh)
    \/ \E customer_id \in Ids, query \in DbResults :
          delete_customer_query(r, customer_id, query)
    \/ \E customer_id \in Ids, commit \in DbResults :
          delete_customer_commit(r, customer_id, commit)

add_process_time_header(r) ==
    \/ \E route \in Routes : middleware_enter(r, route[1], route[2])
    \/ middleware_exit(r)
    \/ middleware_raise(r)

Next ==
    \/ startup_event
    \/ \E r \in Slots : add_process_time_header(r)
    \/ \E r \in Slots : Handler(r)

Spec == Init /\ [][Next]_vars

\* startup_event is straight-line code: once started it keeps running
FairSpec == Spec /\ WF_vars(startup_event)

\* ---- claims ----
Columns == {"email", "password_hash", "first_name", "last_name", "phone_number",
            "shipping_address"}
HoldsEmail(table, email) == {k \in DOMAIN table : table[k].email = email}
\* slot r's handler for `method` takes this step
HandlerStep(r, method) ==
    /\ req[r].pc \in {"call_next", "loaded"}
    /\ req[r].method = method
    /\ req'[r] # req[r]

\* C1: no two stored customer records have the same email, in every state
\* reachable by any interleaving of create, update and delete requests.
C1_EmailUnique ==
    \A a \in DOMAIN customers, b \in DOMAIN customers :
        a # b => customers[a].email # customers[b].email

\* a write that would have duplicated an email was refused while two rows exist
C1_Witness ==
    /\ Cardinality(DOMAIN customers) = 2
    /\ \E r \in Slots : /\ req[r].pc = "returned"
                         /\ req[r].method \in {"POST", "PUT"}
                         /\ req[r].status = HTTP_400_BAD_REQUEST

\* C2: create_customer with an email an existing record holds returns 400 and
\* leaves the table (and the id sequence) exactly as it was.
C2_DuplicateCreate ==
    [][\A r \in Slots : HandlerStep(r, "POST") =>
          \A customer \in CustomerCreate, refresh \in DbResults :
             (/\ HoldsEmail(customers, customer.email) # {}
              /\ create_customer(r, customer, "ok", refresh))
             => /\ req'[r].pc = "returned"
                /\ req'[r].status = HTTP_400_BAD_REQUEST
                /\ customers' = customers
                /\ next_id' = next_id]_vars

C2_Witness ==
    \E r \in Slots : /\ req[r].pc = "returned"
                      /\ req[r].method = "POST"
                      /\ req[r].status = HTTP_400_BAD_REQUEST
                      /\ customers = (1 :> Ann)

\* C3: an update_customer answered 200 changes exactly the supplied fields of its
\* record: unsupplied fields, the identifier and the stored password keep their
\* values (also when the body carries a password), other records are untouched.
C3_PartialMerge ==
    [][\A r \in Slots : (HandlerStep(r, "PUT") /\ req'[r].status = HTTP_200_OK) =>
          \A customer_id \in Ids, customer_data \in CustomerUpdate, refresh \in DbResults :
             update_customer(r, customer_id, customer_data, "ok", "ok", refresh)
             => /\ customer_id \in DOMAIN customers
                /\ DOMAIN customers' = DOMAIN customers
                /\ \A k \in DOMAIN customers \ {customer_id} : customers'[k] = customers[k]
                /\ \A c \in Columns :
                      customers'[customer_id][c] =
                          IF c \in DOMAIN customer_data /\ c # "password"
                            THEN customer_data[c]
                            ELSE customers[customer_id][c]
                /\ customers'[customer_id].password_hash =
                      customers[customer_id].password_hash
                /\ next_id' = next_id]_vars

\* a PUT on record 1 was answered 200 and only its first_name differs
C3_Witness ==
    \E r \in Slots : /\ req[r].pc = "returned"
                      /\ req[r].method = "PUT"
                      /\ req[r].path = CustomerPath[1]
                      /\ req[r].status = HTTP_200_OK
                      /\ received = 1
                      /\ customers = (1 :> [Ann EXCEPT !.first_name = "Bob"]) @@ (2 :> Bob)

\* C4: update_customer that sets the email to one a different record holds
\* returns 400 and persists nothing: neither the email nor any other field
\* supplied in the same request, and the other record is unchanged.
C4_EmailCollision ==
    [][\A r \in Slots : HandlerStep(r, "PUT") =>
          \A customer_id \in Ids, customer_data \in CustomerUpdate, refresh \in DbResults :
             (/\ customer_id \in DOMAIN customers
              /\ "email" \in DOMAIN customer_data
              /\ HoldsEmail(customers, customer_data["email"]) \ {customer_id} # {}
              /\ update_customer(r, customer_id, customer_data, "ok", "ok", refresh))
             => /\ req'[r].pc = "returned"
                /\ req'[r].status = HTTP_400_BAD_REQUEST
                /\ customers' = customers]_vars

C4_Witness ==
    \E r \in Slots : /\ req[r].pc = "returned"
                      /\ req[r].method = "PUT"
                      /\ req[r].path = CustomerPath[2]
                      /\ req[r].status = HTTP_400_BAD_REQUEST
                      /\ received = 1
                      /\ customers = (1 :> Ann) @@ (2 :> Bob)

\* ---- two (or more) create_customer requests racing for one fresh email ----
RaceEmail == "a@x.io"
RaceCreates == {customer \in CustomerCreate : customer.email = RaceEmail}

\* the service is up and no record holds RaceEmail
InitRace ==
    /\ startup = "ready"
    /\ i = 0
    /\ sleep_for = 0
    /\ exit_code = 0
    /\ customers \in {<<>>, (1 :> Bob)}
    /\ next_id = Cardinality(DOMAIN customers) + 1
    /\ req = [r \in Slots |-> Idle]
    /\ received = 0
    /\ REQUEST_COUNT = EmptyBag
    /\ REQUEST_DURATION = EmptyBag
    /\ REQUESTS_IN_PROGRESS = <<>>

NextRace ==
    \E r \in Slots :
        \/ middleware_enter(r, "POST", <<"/customers/">>)
        \/ \E customer \in RaceCreates, commit \in DbResults, refresh \in DbResults :
              create_customer(r, customer, commit, refresh)
        \/ middleware_exit(r)

SpecRace == InitRace /\ [][NextRace]_vars

\* the create requests answered so far with `status_code`: those whose response
\* is on its way out and those the middleware has already counted
Answered(status_code) ==
    Cardinality({r \in Slots : req[r].pc = "returned" /\ req[r].status = status_code})
    + CopiesIn(<<APP_NAME, "POST", <<"/customers/">>, status_code>>, REQUEST_COUNT)

\* C5: of the concurrent create_customer requests carrying the same fresh email,
\* whatever the interleaving, at most one is answered 201 and at most one record
\* holds the email; when none met a persistence failure (500), exactly one is
\* answered 201, every other one 400, and exactly one record holds the email.
C5_CreateRace ==
    LET stored == Cardinality(HoldsEmail(customers, RaceEmail))
        handled == Answered(HTTP_201_CREATED) + Answered(HTTP_400_BAD_REQUEST)
                   + Answered(HTTP_500_INTERNAL_SERVER_ERROR)
    IN /\ Answered(HTTP_201_CREATED) <= 1
       /\ stored <= 1
       /\ (handled >= 1 /\ Answered(HTTP_500_INTERNAL_SERVER_ERROR) = 0)
          => /\ Answered(HTTP_201_CREATED) = 1
             /\ Answered(HTTP_400_BAD_REQUEST) = handled - 1
             /\ stored = 1

\* both requests were in flight together; the one that arrived second
\* committed first and got 201, the other got 400
C5_Witness ==
    /\ req[1].pc = "returned" /\ req[1].status = HTTP_400_BAD_REQUEST
    /\ req[2].pc = "returned" /\ req[2].status = HTTP_201_CREATED
    /\ Cardinality(HoldsEmail(customers, RaceEmail)) = 1

\* C6: get_customer, update_customer and delete_customer on an id no record has
\* answer 404 and leave the table unchanged; update_customer applies nothing.
C6_NotFound ==
    [][\A r \in Slots : req'[r] # req[r] =>
          \A customer_id \in Ids :
             (/\ customer_id \notin DOMAIN customers
              /\ \/ get_customer(r, customer_id, "ok")
                 \/ delete_customer_query(r, customer_id, "ok")
                 \/ /\ HandlerStep(r, "PUT")
                    /\ \E customer_data \in CustomerUpdate, commit \in DbResults,
                          refresh \in DbResults :
                          update_customer(r, customer_id, customer_data, "ok", commit,
                                          refresh))
             => /\ req'[r].pc = "returned"
                /\ req'[r].status = HTTP_404_NOT_FOUND
                /\ customers' = customers
                /\ next_id' = next_id]_vars

C6_Witness ==
    \E r \in Slots : /\ req[r].pc = "returned"
                      /\ req[r].method = "PUT"
                      /\ req[r].path = CustomerPath[2]
                      /\ req[r].status = HTTP_404_NOT_FOUND
                      /\ customers = (1 :> Ann)

\* C7: a delete_customer answered 204 removes its record and no other; the id
\* stays absent, and get_customer on it answers 404, until a create is given
\* that id by the sequence.
C7_HardDelete ==
    [][/\ \A r \in Slots :
            (HandlerStep(r, "DELETE") /\ req'[r].status = HTTP_204_NO_CONTENT) =>
            \A customer_id \in Ids :
               delete_customer_commit(r, customer_id, "ok")
               => /\ customer_id \notin DOMAIN customers'
                  /\ DOMAIN customers' = DOMAIN customers \ {customer_id}
                  /\ \A k \in DOMAIN customers' : customers'[k] = customers[k]
       /\ \A customer_id \in Ids :
            (customer_id \notin DOMAIN customers /\ customer_id \in DOMAIN customers')
            => /\ next_id = customer_id
               /\ \E r \in Slots, customer \in CustomerCreate, refresh \in DbResults :
                     create_customer(r, customer, "ok", refresh)
       /\ \A r \in Slots : HandlerStep(r, "GET") =>
            \A customer_id \in Ids :
               (customer_id \notin DOMAIN customers /\ get_customer(r, customer_id, "ok"))
               => req'[r].status = HTTP_404_NOT_FOUND]_vars

\* a DELETE was answered 204, its row is gone, the other row is as before, and
\* a later GET of the deleted id has been answered 404
C7_Witness ==
    /\ customers = (2 :> Bob)
    /\ CopiesIn(<<APP_NAME, "DELETE", CustomerPath[1], HTTP_204_NO_CONTENT>>,
                REQUEST_COUNT) = 1
    /\ \E r \in Slots : /\ req[r].pc = "returned"
                         /\ req[r].method = "GET"
                         /\ req[r].path = CustomerPath[1]
                         /\ req[r].status = HTTP_404_NOT_FOUND

\* C8: startup_event terminates after at most max_retries attempts: a success
\* ends it at once; an OperationalError on attempts 1..9 is followed by the
\* fixed 5-second sleep and the next attempt; on attempt 10 it exits with
\* failure without sleeping; any other exception exits at once.
C8_Startup ==
    /\ [](i \in 0..(max_retries - 1))
    /\ [][/\ create_all("ok") => startup' = "ready"
          /\ (create_all("OperationalError") /\ i + 1 < max_retries)
             => (startup' = "sleeping" /\ sleep_for' = 5 /\ exit_code' = 0)
          /\ (create_all("OperationalError") /\ i + 1 = 10)
             => (startup' = "exited" /\ exit_code' = 1 /\ sleep_for' = 0)
          /\ create_all("Exception") => (startup' = "exited" /\ exit_code' = 1)
          /\ startup = "sleeping" => (startup' = "attempt" /\ i' = i + 1)
          /\ startup \in {"ready", "exited"} => UNCHANGED startup_vars]_vars
    /\ <>(startup \in {"ready", "exited"})

\* the tenth attempt failed and the process exited
C8_Witness == startup = "exited" /\ i = 9 /\ exit_code = 1 /\ sleep_for = 0

\* the middleware hands slot r's response on
Completes(r) == req[r].pc = "returned" /\ req'[r].pc = "idle"

\* C9: no http_requests_total counter ever decreases; a request that runs to
\* completion on a path other than /metrics raises exactly one counter, its
\* own (method, endpoint, status code), by exactly 1; no step of a /metrics
\* request changes a counter, histogram or gauge.
C9_RequestCount ==
    [][/\ \A label \in BagToSet(REQUEST_COUNT) :
            CopiesIn(label, REQUEST_COUNT') >= CopiesIn(label, REQUEST_COUNT)
       /\ \A r \in Slots :
            /\ (Completes(r) /\ req[r].path # <<"/metrics">>)
               => REQUEST_COUNT' = REQUEST_COUNT (+)
                      SetToBag({<<APP_NAME, req[r].method, req[r].path, req[r].status>>})
            /\ (req'[r] # req[r] /\ <<"/metrics">> \in {req[r].path, req'[r].path})
               => UNCHANGED metric_vars
            /\ ~Completes(r) => (req'[r] # req[r] => REQUEST_COUNT' = REQUEST_COUNT)]_vars

\* a /metrics response is on its way out after other requests were counted
C9_Witness ==
    /\ REQUEST_COUNT # EmptyBag
    /\ \E r \in Slots : req[r].pc = "returned" /\ req[r].path = <<"/metrics">>

\* C10: the in-flight gauge of every (method, endpoint) equals the number of
\* requests for it that are between the middleware's inc and its dec, and is 0
\* whenever no such request is in flight, whatever way the handler ended.
InFlight(method, path) ==
    {r \in Slots : req[r].pc # "idle" /\ req[r].method = method /\ req[r].path = path}

C10_InProgress ==
    \A route \in Routes :
        route[2] # <<"/metrics">>
        => Gauge(REQUESTS_IN_PROGRESS, <<APP_NAME, route[1], route[2]>>)
               = Cardinality(InFlight(route[1], route[2]))

====
